---- MODULE Spec2Model ----
(***************************************************************************)
(* State-machine model of the EPUB builder library.                        *)
(*                                                                         *)
(* A publication is the object built by BaseEPUBBuilder: a Map of chapter  *)
(* objects, the list of root chapter ids, the chapter counter, the Maps of *)
(* images and stylesheets and the metadata.  Chapter objects live on the   *)
(* heap (objs): a children array holds references to chapter objects, so   *)
(* an object removed from the chapters Map stays reachable through the     *)
(* children arrays that still reference it.                                *)
(***************************************************************************)
EXTENDS Integers, Sequences, FiniteSets, TLC

VARIABLES
  pc,              \* "start" | "nav" | "ready" | "failed": position of the caller
  parsed,          \* TRUE when the publication came from parseBuffer
  objs,            \* heap: chapter id -> chapter object (every object ever created)
  chapters,        \* this.chapters: keys of the Map, in insertion order
  rootChapterIds,  \* this.rootChapterIds
  chapterCounter,  \* this.chapterCounter
  metadata,        \* this.metadata (title, creator)
  images,          \* this.images: Map values in insertion order
  stylesheets,     \* this.stylesheets: Map values in insertion order
  uuids,           \* number of uuid values drawn for image and stylesheet ids
  spine,           \* parse: the archive's spine (hrefs), kept as spineMap
  filesInNav,      \* parse: filesInNav of extractChapters
  navStack,        \* parse: chapter ids of the enclosing processNavPoint calls
  result,          \* outcome of the last API call
  exported,        \* what the last export() delivered: Error message or archive
  unzip,           \* parse: the archive opened by unzip and its size callbacks
  merge            \* merge: the caller's seen maps, the Buffer objects, the last call's maps

chapterVars == <<objs, chapters, rootChapterIds, chapterCounter>>
parseVars == <<spine, filesInNav, navStack>>
resourceVars == <<images, stylesheets, uuids>>
vars == <<pc, parsed, objs, chapters, rootChapterIds, chapterCounter, metadata,
          images, stylesheets, uuids, spine, filesInNav, navStack, result,
          exported, unzip, merge>>

----------------------------------------------------------------------------
(* Bounds of the model *)

\* number of chapter objects one publication may create (uuid values used)
MaxChapters == 3
\* cap on chapterCounter
MaxCounter == 4
\* depth of navPoint nesting walked by the parser
MaxNavDepth == 3
\* number of markup blocks a chapter's content may grow to
MaxContentLen == 1
\* number of uuid values drawn for images and stylesheets
MaxResources == 2
\* chapter objects of a destination of merges
MaxMerged == 7

NULL == 0
ChapterIds == 1..MaxChapters

\* hrefs of the content documents an archive may hold; the second one has the
\* form of a filename minted by addChapter
Hrefs == {"a.xhtml", "text/chapter-2.xhtml"}
\* fragment part of a navigation src ("" when the src has no '#', or ends in '#')
Fragments == {"", "s1"}
\* the spines of the archives parsed: sequences of distinct hrefs
Spines == {<<>>, <<"text/chapter-2.xhtml", "a.xhtml">>}
\* values of a metadata field
Strings == {"", "T"}
\* markup given to addChapter, setChapterContent and appendToChapter, as a
\* sequence of blocks ("" is the empty sequence)
Contents == {<<>>, <<"x">>}
\* file names given to addImage
ImageNames == {<<"a", ".", "p", "n", "g">>, <<"A", ".", "P", "N", "G">>,
               <<"a", ".", "b", "m", "p">>}
\* file names given to addStylesheet
StyleNames == {<<"s", ".", "c", "s", "s">>, <<"S", " ", ".", "c", "s", "s">>,
               <<"s", "t", "y", "l", "e", "s", ".", "c", "s", "s">>}
\* the image items of the manifests of the archives parsed
ArchiveImages == {<<>>, <<<<"a", ".", "p", "n", "g">>>>,
                  <<<<"a", ".", "b", "m", "p">>>>}
\* the partial metadata given to setMetadata
Partials == UNION {[D -> Strings] : D \in SUBSET {"title", "creator"}}

----------------------------------------------------------------------------
(* Helpers over sequences *)

Range(s) == {s[i] : i \in DOMAIN s}

\* Array.prototype.filter(x => x !== v)
Without(s, v) == SelectSeq(s, LAMBDA x : x # v)

MaxOf(S) == IF S = {} THEN 0 ELSE CHOOSE m \in S : \A x \in S : x <= m

----------------------------------------------------------------------------
(* The chapter part of a builder, as one value the operations transform *)

Pub == [objs |-> objs, chapters |-> chapters, rootChapterIds |-> rootChapterIds,
        chapterCounter |-> chapterCounter]

EmptyPub == [objs |-> <<>>, chapters |-> <<>>, rootChapterIds |-> <<>>,
             chapterCounter |-> 0]

\* generateChapterId: a uuid never produced before; modelled as the next
\* unused index of the heap
generateChapterId(P) == Len(P.objs) + 1

\* the filename template of addChapter
ChapterFilename(n) == "text/chapter-" \o ToString(n) \o ".xhtml"

\* an order taken from the number of chapters in the Map
getNextChapterOrderBySize(P) == Len(P.chapters) + 1

getNextChapterOrder(P) ==
  MaxOf({P.objs[c].order : c \in Range(P.chapters)}) + 1

\* addChapter(options): the counter is incremented before the parent is
\* looked up, so the throw of the unknown-parent branch happens after it.
addChapter(P, parentId, content) ==
  LET chapterId == generateChapterId(P)
      counter == P.chapterCounter + 1
      chapter == [filename |-> ChapterFilename(counter),
                  parentId |-> parentId,
                  order |-> getNextChapterOrder(P),
                  children |-> <<>>,
                  content |-> content,
                  fragment |-> "",
                  sourceChapterId |-> NULL]
  IN IF parentId # NULL /\ parentId \notin Range(P.chapters)
     THEN [pub |-> [P EXCEPT !.chapterCounter = counter],
           id |-> NULL, error |-> "ParentNotFound"]
     ELSE [pub |-> [objs |-> IF parentId # NULL
                             THEN Append([P.objs EXCEPT ![parentId].children =
                                                          Append(@, chapterId)],
                                         chapter)
                             ELSE Append(P.objs, chapter),
                    chapters |-> Append(P.chapters, chapterId),
                    rootChapterIds |-> IF parentId # NULL THEN P.rootChapterIds
                                       ELSE Append(P.rootChapterIds, chapterId),
                    chapterCounter |-> counter],
           id |-> chapterId, error |-> ""]

\* deleteChapterRecursive without the descent into the children
deleteChapterShallow(O, c, stack, acc) == [acc EXCEPT !.deleted = @ \cup {c}]

\* deleteChapterRecursive(chapter): post-order walk over the children arrays.
\* The arrays are not modified by the walk, so a chapter met again while it
\* is still on the call stack is met again forever: the recursion ends with
\* the engine's stack-overflow RangeError, the deletions made so far kept.
RECURSIVE deleteChapterRecursive(_, _, _, _)
RECURSIVE deleteChildren(_, _, _, _, _)
deleteChapterRecursive(O, c, stack, acc) ==
  IF acc.overflow THEN acc
  ELSE IF c \in stack THEN [acc EXCEPT !.overflow = TRUE]
  ELSE LET r == deleteChildren(O, O[c].children, 1, stack \cup {c}, acc)
       IN IF r.overflow THEN r ELSE [r EXCEPT !.deleted = @ \cup {c}]

deleteChildren(O, kids, i, stack, acc) ==
  IF i > Len(kids) THEN acc
  ELSE deleteChildren(O, kids, i + 1, stack,
                      deleteChapterRecursive(O, kids[i], stack, acc))

\* deleteChapter without the removal from the parent's children array and
\* from rootChapterIds
deleteChapterNoUnlink(P, chapterId) ==
  IF chapterId \notin Range(P.chapters)
  THEN [pub |-> P, error |-> "ChapterNotFound"]
  ELSE LET walk == deleteChapterRecursive(P.objs, chapterId, {},
                                          [deleted |-> {}, overflow |-> FALSE])
       IN [pub |-> [P EXCEPT !.chapters =
                               SelectSeq(@, LAMBDA c : c \notin walk.deleted)],
           error |-> IF walk.overflow THEN "RangeError" ELSE ""]

deleteChapter(P, chapterId) ==
  IF chapterId \notin Range(P.chapters)
  THEN [pub |-> P, error |-> "ChapterNotFound"]
  ELSE LET chapter == P.objs[chapterId]
           hasParent == chapter.parentId # NULL
           parentInMap == hasParent /\ chapter.parentId \in Range(P.chapters)
           objs1 == IF parentInMap
                    THEN [P.objs EXCEPT ![chapter.parentId].children =
                                          Without(@, chapterId)]
                    ELSE P.objs
           roots1 == IF hasParent THEN P.rootChapterIds
                     ELSE Without(P.rootChapterIds, chapterId)
           walk == deleteChapterRecursive(objs1, chapterId, {},
                                          [deleted |-> {}, overflow |-> FALSE])
       IN [pub |-> [objs |-> objs1,
                    chapters |-> SelectSeq(P.chapters,
                                           LAMBDA c : c \notin walk.deleted),
                    rootChapterIds |-> roots1,
                    chapterCounter |-> P.chapterCounter],
           error |-> IF walk.overflow THEN "RangeError" ELSE ""]

setChapterContent(P, chapterId, content) ==
  IF chapterId \notin Range(P.chapters)
  THEN [pub |-> P, error |-> "ChapterNotFound"]
  ELSE [pub |-> [P EXCEPT !.objs[chapterId].content = content], error |-> ""]

appendToChapter(P, chapterId, content) ==
  IF chapterId \notin Range(P.chapters)
  THEN [pub |-> P, error |-> "ChapterNotFound"]
  ELSE [pub |-> [P EXCEPT !.objs[chapterId].content = @ \o content],
        error |-> ""]

----------------------------------------------------------------------------
(* File names and resources.  A file name is a sequence of characters. *)

UpperCase == {"A", "G", "N", "P", "S"}
NameChars == {"a", "b", "c", "e", "g", "l", "m", "n", "p", "s", "t", "y",
              "k", "o", "1", "2", ".", "_", "-"} \cup UpperCase

\* String.prototype.toLowerCase on the characters of the model
ToLowerChar(c) ==
  CASE c = "A" -> "a" [] c = "G" -> "g" [] c = "N" -> "n" [] c = "P" -> "p"
    [] c = "S" -> "s" [] OTHER -> c

toLowerCase(f) == [i \in DOMAIN f |-> ToLowerChar(f[i])]

RECURSIVE StripLeadingDots(_)
StripLeadingDots(f) ==
  IF f # <<>> /\ Head(f) = "." THEN StripLeadingDots(Tail(f)) ELSE f

RECURSIVE StripTrailingDots(_)
StripTrailingDots(f) ==
  IF f # <<>> /\ f[Len(f)] = "."
  THEN StripTrailingDots(SubSeq(f, 1, Len(f) - 1)) ELSE f

\* sanitizeFilename: characters outside [a-zA-Z0-9._-] become '-', leading
\* and trailing dots are removed, the rest is lower-cased
sanitizeFilename(f) ==
  toLowerCase(StripTrailingDots(StripLeadingDots(
    [i \in DOMAIN f |-> IF f[i] \in NameChars THEN f[i] ELSE "-"])))

\* filename.toLowerCase().split('.').pop(): what follows the last dot, the
\* whole name when it has none
Extension(f) ==
  LET g == toLowerCase(f)
      dots == {i \in DOMAIN g : g[i] = "."}
  IN IF dots = {} THEN g ELSE SubSeq(g, MaxOf(dots) + 1, Len(g))

validExtensions ==
  {<<"j", "p", "g">>, <<"j", "p", "e", "g">>, <<"p", "n", "g">>,
   <<"g", "i", "f">>, <<"s", "v", "g">>, <<"w", "e", "b", "p">>}

isValidImageExtension(f) == Extension(f) \in validExtensions

\* the characters of a name as one string
RECURSIVE Join(_)
Join(f) == IF f = <<>> THEN "" ELSE Head(f) \o Join(Tail(f))

\* the image and stylesheet part of a builder
Res == [images |-> images, stylesheets |-> stylesheets, uuids |-> uuids]

generateImageId(R) == "image-" \o ToString(R.uuids + 1)
generateStylesheetId(R) == "style-" \o ToString(R.uuids + 1)

addImage(R, name) ==
  IF ~isValidImageExtension(name)
  THEN [res |-> R, id |-> "", error |-> "InvalidImageExtension"]
  ELSE [res |-> [R EXCEPT !.images =
                   Append(@, [id |-> generateImageId(R),
                              filename |-> "images/" \o Join(sanitizeFilename(name))]),
                          !.uuids = @ + 1],
        id |-> generateImageId(R), error |-> ""]

\* Map.prototype.delete: no effect when the id is absent
deleteImage(R, imageId) ==
  [R EXCEPT !.images = SelectSeq(@, LAMBDA im : im.id # imageId)]

addStylesheet(R, name) ==
  [res |-> [R EXCEPT !.stylesheets =
              Append(@, [id |-> generateStylesheetId(R),
                         filename |-> "css/" \o Join(sanitizeFilename(name))]),
                     !.uuids = @ + 1],
   id |-> generateStylesheetId(R), error |-> ""]

\* setMetadata: { ...this.metadata, ...metadata }
setMetadata(m, partial) ==
  [k \in DOMAIN m |-> IF k \in DOMAIN partial THEN partial[k] ELSE m[k]]

\* extractImages: addImage for every image item of the manifest, in order;
\* the throw of addImage ends the loop
RECURSIVE extractImages(_, _, _)
extractImages(R, names, i) ==
  IF i > Len(names) THEN [res |-> R, error |-> ""]
  ELSE LET r == addImage(R, names[i])
       IN IF r.error # "" THEN [res |-> R, error |-> r.error]
          ELSE extractImages(r.res, names, i + 1)

----------------------------------------------------------------------------
(* Deserialization: extractChapters of the EPUB 2 builder *)

\* the body extractBodyFromXHTML returns for the document stored at href
FileBody(href) == <<href>>

\* spineMap.get(id)?.order ?? 9999, the spine index counted from 0
UnlistedOrder == 9999
SpineOrder(sp, href) ==
  LET at == {i \in DOMAIN sp : sp[i] = href}
  IN IF at = {} THEN UnlistedOrder ELSE (CHOOSE i \in at : TRUE) - 1

\* the lookup loop of processNavPoint: the first chapter of the Map stored
\* under href that is not a fragment chapter
FindByFile(P, href) ==
  LET hits == {i \in DOMAIN P.chapters :
                 /\ P.objs[P.chapters[i]].filename = href
                 /\ P.objs[P.chapters[i]].fragment = ""}
  IN IF hits = {} THEN NULL
     ELSE P.chapters[CHOOSE i \in hits : \A j \in hits : i <= j]

\* addChapter followed by the "update internal tracking" assignments
AddParsedChapter(P, parentId, content, href, order, fragment, sourceId) ==
  LET r == addChapter(P, parentId, content)
  IN IF r.error # "" THEN r
     ELSE [r EXCEPT !.pub.objs[r.id].filename = href,
                    !.pub.objs[r.id].order = order,
                    !.pub.objs[r.id].fragment = fragment,
                    !.pub.objs[r.id].sourceChapterId = sourceId]

\* the re-reference branch of processNavPoint: the existing chapter gets the
\* new parent id and is pushed onto the new parent's children; nothing is
\* removed from the old parent's children or from rootChapterIds
Reparent(P, existingId, parentId) ==
  IF parentId # NULL /\ P.objs[existingId].parentId # parentId
  THEN LET o1 == [P.objs EXCEPT ![existingId].parentId = parentId]
       IN [P EXCEPT !.objs =
             IF parentId \in Range(P.chapters)
                /\ existingId \notin Range(o1[parentId].children)
             THEN [o1 EXCEPT ![parentId].children = Append(@, existingId)]
             ELSE o1]
  ELSE P

\* processNavPoint up to its loop over the child navPoints; id is the
\* chapterId handed to the children as their parentId
processNavPoint(P, sp, href, fragment, parentId) ==
  LET order == SpineOrder(sp, href)
      existingId == FindByFile(P, href)
  IN IF fragment # ""
     THEN LET src == IF existingId # NULL
                     THEN [pub |-> P, id |-> existingId, error |-> ""]
                     ELSE AddParsedChapter(P, parentId, FileBody(href), href,
                                           order, "", NULL)
          IN IF src.error # "" THEN src
             ELSE AddParsedChapter(src.pub, parentId, <<>>, href, order,
                                   fragment, src.id)
     ELSE IF existingId # NULL
          THEN [pub |-> Reparent(P, existingId, parentId),
                id |-> existingId, error |-> ""]
          ELSE AddParsedChapter(P, parentId, FileBody(href), href, order,
                                "", NULL)

\* number of chapter objects processNavPoint creates for an entry
NavCreates(P, href, fragment) ==
  (IF FindByFile(P, href) = NULL THEN 1 ELSE 0) + (IF fragment # "" THEN 1 ELSE 0)

\* handleOrphanedChapters: the spine documents never referenced by the
\* navigation become root chapters, in spine order
RECURSIVE handleOrphanedChapters(_, _, _, _)
handleOrphanedChapters(P, sp, seen, i) ==
  IF i > Len(sp) THEN P
  ELSE IF sp[i] \in seen THEN handleOrphanedChapters(P, sp, seen, i + 1)
  ELSE handleOrphanedChapters(
         AddParsedChapter(P, NULL, FileBody(sp[i]), sp[i], i - 1, "", NULL).pub,
         sp, seen, i + 1)

Orphans(sp, seen) == {i \in DOMAIN sp : sp[i] \notin seen}

\* addWarning(message): the message is recorded with the builder.  A
\* warning is kept as its text and the href the text quotes.
addWarning(ws, text, href) == Append(ws, [text |-> text, href |-> href])

\* the warnings of handleOrphanedChapters, one for every chapter it adds
RECURSIVE OrphanWarnings(_, _, _, _)
OrphanWarnings(ws, sp, seen, i) ==
  IF i > Len(sp) THEN ws
  ELSE OrphanWarnings(IF sp[i] \in seen THEN ws
                      ELSE addWarning(ws, "found in spine but not in navigation",
                                      sp[i]),
                      sp, seen, i + 1)

\* extractChaptersFromSpine: one root chapter for every spine document, in
\* spine order, whatever the Map holds already
RECURSIVE extractChaptersFromSpine(_, _, _)
extractChaptersFromSpine(P, sp, i) ==
  IF i > Len(sp) THEN P
  ELSE extractChaptersFromSpine(
         AddParsedChapter(P, NULL, FileBody(sp[i]), sp[i], i - 1, "", NULL).pub,
         sp, i + 1)

----------------------------------------------------------------------------
(* Serialization: validate and export of the EPUB 2 builder *)

\* validate(): the errors array (the warnings do not influence export)
validate(m, P) ==
  (IF m.title = "" THEN <<"Title is required">> ELSE <<>>)
  \o (IF m.creator = "" THEN <<"Creator/Author is required">> ELSE <<>>)
  \o [i \in DOMAIN SelectSeq(P.chapters, LAMBDA c :
                      /\ P.objs[c].parentId # NULL
                      /\ P.objs[c].parentId \notin Range(P.chapters)) |->
        "references non-existent parent"]

\* chapterToNCXNavPoint(chapter): the navPoint of a chapter object and,
\* through its children array, of the objects below it.  A chapter met again
\* while it is on the call stack is met again forever (RangeError).
RECURSIVE chapterToNCXNavPoint(_, _, _)
RECURSIVE NavPointsOf(_, _, _, _)
chapterToNCXNavPoint(O, c, stack) ==
  IF c \in stack THEN [overflow |-> TRUE, points |-> <<>>]
  ELSE LET kids == NavPointsOf(O, O[c].children, 1, stack \cup {c})
       IN [overflow |-> kids.overflow,
           points |-> <<[id |-> c, content |-> O[c].filename,
                         children |-> kids.points]>>]

NavPointsOf(O, ids, i, stack) ==
  IF i > Len(ids) THEN [overflow |-> FALSE, points |-> <<>>]
  ELSE LET head == chapterToNCXNavPoint(O, ids[i], stack)
           rest == NavPointsOf(O, ids, i + 1, stack)
       IN [overflow |-> head.overflow \/ rest.overflow,
           points |-> head.points \o rest.points]

\* generateNCXNavMap: the navPoints of the root ids that are in the Map
generateNCXNavMap(P) ==
  NavPointsOf(P.objs,
              SelectSeq(P.rootChapterIds, LAMBDA c : c \in Range(P.chapters)),
              1, {})

\* the spine items left in the order of the Map
SpineInMapOrder(O, ids) == ids

\* Array.prototype.sort by chapter order: stable, so equal orders keep the
\* insertion order of the Map
RECURSIVE SortByOrder(_, _)
SortByOrder(O, ids) ==
  IF ids = <<>> THEN <<>>
  ELSE LET least == CHOOSE i \in DOMAIN ids :
                      \A j \in DOMAIN ids :
                        \/ O[ids[i]].order < O[ids[j]].order
                        \/ (O[ids[i]].order = O[ids[j]].order /\ i <= j)
       IN <<ids[least]>>
          \o SortByOrder(O, [k \in 1..(Len(ids) - 1) |->
                                IF k < least THEN ids[k] ELSE ids[k + 1]])

\* generatePackageDocument: title and creator, the manifest items of the
\* chapters in Map order and the spine idrefs sorted by chapter order
generatePackageDocument(m, P) ==
  [title |-> m.title, creator |-> m.creator,
   manifest |-> [i \in DOMAIN P.chapters |->
                   [id |-> P.chapters[i], href |-> P.objs[P.chapters[i]].filename]],
   spine |-> SortByOrder(P.objs, P.chapters)]

\* the zip entries of the chapters: zip.file(path, data) replaces an entry
\* of the same path, so the last chapter stored under a filename stays
ChapterFiles(P) ==
  [f \in {P.objs[c].filename : c \in Range(P.chapters)} |->
     LET at == {i \in DOMAIN P.chapters : P.objs[P.chapters[i]].filename = f}
     IN P.objs[P.chapters[MaxOf(at)]].content]

NoArchive == [produced |-> FALSE]
NoExport == [validate |-> FALSE, message |-> <<>>, archive |-> NoArchive]

\* export(options) after the validation: the entries written to the zip
writeArchive(m, P, R, doValidate) ==
  LET nav == generateNCXNavMap(P)
  IN IF nav.overflow
     THEN [validate |-> doValidate,
           message |-> <<"Maximum call stack size exceeded">>,
           archive |-> NoArchive]
     ELSE [validate |-> doValidate,
           message |-> <<>>,
           archive |-> [produced |-> TRUE,
                        stylesheets |-> [i \in DOMAIN R.stylesheets |->
                                           R.stylesheets[i].filename],
                        images |-> [i \in DOMAIN R.images |->
                                      R.images[i].filename],
                        files |-> ChapterFiles(P),
                        ncx |-> nav.points,
                        opf |-> generatePackageDocument(m, P)]]

\* export that never validates
exportUnvalidated(m, P, R, doValidate) == writeArchive(m, P, R, doValidate)

\* export(options): validation unless options.validate is false, then the zip
export(m, P, R, doValidate) ==
  IF doValidate /\ validate(m, P) # <<>>
  THEN [validate |-> doValidate,
        message |-> <<"EPUB validation failed:">> \o validate(m, P),
        archive |-> NoArchive]
  ELSE writeArchive(m, P, R, doValidate)

----------------------------------------------------------------------------
(* The EPUB 3 builder: the navigation document written by export and read
   back by parseBuffer.  The document is the sequence of its tags. *)

Tag(tag) == [tag |-> tag, href |-> ""]
Anchor(href) == [tag |-> "a", href |-> href]

\* generateTocItems / chapterToNavItem: the same walk over rootChapterIds and
\* the children arrays as generateNCXNavMap, href = chapter.filename
generateTocItems(P) == generateNCXNavMap(P)

\* generateNavList(items): <ol>, for every item <li>, its <a>, the list of
\* its children when it has any, </li>, and </ol>
RECURSIVE generateNavList(_)
RECURSIVE NavListItems(_, _)
generateNavList(items) ==
  <<Tag("ol")>> \o NavListItems(items, 1) \o <<Tag("/ol")>>

NavListItems(items, i) ==
  IF i > Len(items) THEN <<>>
  ELSE <<Tag("li"), Anchor(items[i].content)>>
       \o (IF items[i].children # <<>>
           THEN generateNavList(items[i].children) ELSE <<>>)
       \o <<Tag("/li")>>
       \o NavListItems(items, i + 1)

\* export of the EPUB 3 builder after the validation
writeArchive3(m, P, R, doValidate) ==
  LET toc == generateTocItems(P)
  IN IF toc.overflow
     THEN [validate |-> doValidate,
           message |-> <<"Maximum call stack size exceeded">>,
           archive |-> NoArchive]
     ELSE [validate |-> doValidate,
           message |-> <<>>,
           archive |-> [produced |-> TRUE,
                        stylesheets |-> [i \in DOMAIN R.stylesheets |->
                                           R.stylesheets[i].filename],
                        images |-> [i \in DOMAIN R.images |->
                                      R.images[i].filename],
                        files |-> ChapterFiles(P),
                        nav |-> generateNavList(toc.points),
                        opf |-> generatePackageDocument(m, P)]]

\* export(options) of the EPUB 3 builder
export3(m, P, R, doValidate) ==
  IF doValidate /\ validate(m, P) # <<>>
  THEN [validate |-> doValidate,
        message |-> <<"EPUB validation failed:">> \o validate(m, P),
        archive |-> NoArchive]
  ELSE writeArchive3(m, P, R, doValidate)

\* position of the first tag of that name at or after from, 0 when none
IndexFrom(doc, tag, from) ==
  LET at == {i \in DOMAIN doc : i >= from /\ doc[i].tag = tag}
  IN IF at = {} THEN 0 ELSE CHOOSE i \in at : \A j \in at : i <= j

\* the regular expressions <ol[^>]*>([\s\S]*?)<\/ol> and
\* <li[^>]*>([\s\S]*?)<\/li>: from the first opening tag to the first
\* closing tag that follows it
LazyMatch(doc, open, close, from) ==
  LET o == IndexFrom(doc, open, from)
      c == IF o = 0 THEN 0 ELSE IndexFrom(doc, close, o + 1)
  IN IF c = 0 THEN [found |-> FALSE, inner |-> <<>>, next |-> 0]
     ELSE [found |-> TRUE, inner |-> SubSeq(doc, o + 1, c - 1), next |-> c + 1]

\* parseNavList(listContent, parentId) and parseNavListItem(itemContent,
\* parentId); S is the builder being filled and the filesInNav set
RECURSIVE parseNavList(_, _, _, _, _)
RECURSIVE parseNavListItem(_, _, _, _)
parseNavList(S, sp, listContent, from, parentId) ==
  LET li == LazyMatch(listContent, "li", "/li", from)
  IN IF ~li.found THEN S
     ELSE parseNavList(parseNavListItem(S, sp, li.inner, parentId), sp,
                       listContent, li.next, parentId)

parseNavListItem(S, sp, itemContent, parentId) ==
  LET a == IndexFrom(itemContent, "a", 1)
  IN IF a = 0 THEN S
     ELSE LET href == itemContent[a].href
              r == processNavPoint(S.pub, sp, href, "", parentId)
              S1 == [pub |-> r.pub, filesInNav |-> S.filesInNav \cup {href}]
              nestedOl == LazyMatch(itemContent, "ol", "/ol", 1)
          IN IF nestedOl.found
             THEN parseNavList(S1, sp, nestedOl.inner, 1, r.id)
             ELSE S1

\* parseNavDocument: the first ol of the toc nav
parseNavDocument(S, sp, navContent) ==
  LET ol == LazyMatch(navContent, "ol", "/ol", 1)
  IN IF ~ol.found THEN S ELSE parseNavList(S, sp, ol.inner, 1, NULL)

\* the hrefs of the spine of a package document, in spine order
SpineHrefs(opf) ==
  [i \in DOMAIN opf.spine |->
     LET item == CHOOSE k \in DOMAIN opf.manifest :
                   opf.manifest[k].id = opf.spine[i]
     IN opf.manifest[item].href]

\* the chapters read the body of their content document from the archive
WithBodies(P, files) ==
  [P EXCEPT !.objs = [c \in DOMAIN P.objs |->
                        IF P.objs[c].fragment = ""
                           /\ P.objs[c].filename \in DOMAIN files
                        THEN [P.objs[c] EXCEPT !.content = files[P.objs[c].filename]]
                        ELSE P.objs[c]]]

\* the warnings of extractChapters of the EPUB 3 builder
extractWarnings3(archive) ==
  LET sp == SpineHrefs(archive.opf)
      nav == parseNavDocument([pub |-> EmptyPub, filesInNav |-> {}], sp,
                              archive.nav)
  IN OrphanWarnings(<<>>, sp, nav.filesInNav, 1)

\* extractChapters of the EPUB 3 builder on an archive it has written
extractChapters3(archive) ==
  LET sp == SpineHrefs(archive.opf)
      nav == parseNavDocument([pub |-> EmptyPub, filesInNav |-> {}], sp,
                              archive.nav)
  IN WithBodies(handleOrphanedChapters(nav.pub, sp, nav.filesInNav, 1),
                archive.files)

----------------------------------------------------------------------------
(* Opening the archive: unzip of the base builder.  An entry name is a
   sequence of path segments, a segment a sequence of characters. *)

MAX_FILES == 10000
MAX_SIZE == 1000000000

ArchiveTmp == <<"a", "r", "c", "h", "i", "v", "e", "_", "t", "m", "p">>
DotDot == <<".", ".">>
\* path.join(__dirname, 'archive_tmp'), __dirname being /lib
targetDirectory == <<<<"l", "i", "b">>, ArchiveTmp>>

\* the names of the entries of the archives opened:
\* a, x/../a, ../e and ../archive_tmp2/e
EntryNames == {<<<<"a">>>>, <<<<"x">>, DotDot, <<"a">>>>, <<DotDot, <<"e">>>>,
               <<DotDot, ArchiveTmp \o <<"2">>, <<"e">>>>}
\* the uncompressed sizes of these entries
EntrySizes == {1, 500000000, 600000000}
\* number of further entries of the archive, empty and with a name inside
\* the target directory
Paddings == {0, 9998, 9999, 10000}
\* number of entries of an archive beside its padding
MaxEntries == 2

ZipEntry == [name : EntryNames, size : EntrySizes]
\* the archives opened: the entries of a zip have distinct names
ZipEntryLists ==
  {es \in UNION {[1..n -> ZipEntry] : n \in 0..MaxEntries} :
     \A i, j \in DOMAIN es : i # j => es[i].name # es[j].name}
Zips == [padding : Paddings, entries : ZipEntryLists]

\* path.normalize on the segments: '..' removes the segment before it
RECURSIVE Normalize(_, _)
Normalize(segs, acc) ==
  IF segs = <<>> THEN acc
  ELSE IF Head(segs) = DotDot
       THEN Normalize(Tail(segs),
                      IF acc = <<>> THEN acc ELSE SubSeq(acc, 1, Len(acc) - 1))
       ELSE Normalize(Tail(segs), Append(acc, Head(segs)))

\* the characters of an absolute path: '/' before every segment
RECURSIVE PathChars(_)
PathChars(segs) ==
  IF segs = <<>> THEN <<>> ELSE <<"/">> \o Head(segs) \o PathChars(Tail(segs))

\* path.join(targetDirectory, zipEntry.name)
pathJoin(base, name) == PathChars(Normalize(base \o name, <<>>))

\* String.prototype.startsWith
startsWith(str, prefix) ==
  Len(str) >= Len(prefix) /\ SubSeq(str, 1, Len(prefix)) = prefix

\* the ZipSlip test of unzip
PathTraversal(name) ==
  ~startsWith(pathJoin(targetDirectory, name), PathChars(targetDirectory))

\* the entry-count test of unzip, with <= in place of >
TooManyFilesOffByOne(fileCount) == fileCount >= MAX_FILES

\* the entry-count test of unzip
TooManyFiles(fileCount) == fileCount > MAX_FILES

NotOpened == [opened |-> FALSE, padding |-> 0, entries |-> <<>>,
              pending |-> {}, totalSize |-> 0, unhandled |-> FALSE]

\* the zip.forEach callback over the entries i.. of the archive, the padding
\* entries after the others: the first throw ends the loop
RECURSIVE forEachEntry(_, _)
forEachEntry(z, i) ==
  IF i > Len(z.entries)
  THEN IF TooManyFiles(Len(z.entries) + z.padding)
       THEN "Reached max. number of files" ELSE ""
  ELSE IF TooManyFiles(i) THEN "Reached max. number of files"
  ELSE IF PathTraversal(z.entries[i].name) THEN "Path traversal detected"
  ELSE forEachEntry(z, i + 1)

\* unzip(buffer): the error thrown by the forEach callback, if any; the
\* promises of file.async('nodebuffer') are left pending
unzipArchive(z) ==
  LET error == forEachEntry(z, 1)
  IN [error |-> error,
      unzip |-> IF error # "" THEN [NotOpened EXCEPT !.padding = z.padding,
                                                     !.entries = z.entries]
                ELSE [opened |-> TRUE, padding |-> z.padding,
                      entries |-> z.entries, pending |-> DOMAIN z.entries,
                      totalSize |-> 0, unhandled |-> FALSE]]

----------------------------------------------------------------------------
(* Merging publications: addEpubAsChapter and its helpers.  A stylesheet
   or image that takes part in a merge carries, beside id and filename, its
   content or its data and path.basename of its filename as characters.
   The data of an image is a reference to a Buffer object. *)

\* a Map as the sequence of its entries, in insertion order
MapHas(m, k) == \E i \in DOMAIN m : m[i].key = k

MapGet(m, k) == m[CHOOSE i \in DOMAIN m : m[i].key = k].value

\* Map.prototype.set: an existing key keeps its position and gets the value
MapSet(m, k, v) ==
  IF MapHas(m, k)
  THEN [i \in DOMAIN m |-> IF m[i].key = k THEN [key |-> k, value |-> v]
                           ELSE m[i]]
  ELSE Append(m, [key |-> k, value |-> v])

\* the SHA-1 digest of a text or of the bytes of a Buffer; distinct contents
\* of the model have distinct digests
hash(content) == <<"sha1", content>>

\* addStylesheet({filename, content})
addStylesheetContent(R, name, content) ==
  LET r == addStylesheet(R, name)
      n == Len(r.res.stylesheets)
  IN [r EXCEPT !.res.stylesheets[n] =
        [id |-> @.id, filename |-> @.filename,
         basename |-> sanitizeFilename(name), content |-> content]]

\* addImage({filename, data}) with a Buffer as data: the image keeps the
\* reference it was given
addImageData(R, name, data) ==
  LET r == addImage(R, name)
      n == Len(r.res.images)
  IN IF r.error # "" THEN r
     ELSE [r EXCEPT !.res.images[n] =
             [id |-> @.id, filename |-> @.filename,
              basename |-> sanitizeFilename(name), data |-> data]]

\* a stored filename, with its last segment
PathOf(r) == [filename |-> r.filename, basename |-> r.basename]

\* `book${bookNumber}-${path.basename(filename)}`
UniqueFilename(bookNumber, basename) ==
  <<"b", "o", "o", "k", ToString(bookNumber), "-">> \o basename

\* the loop of copyStyleSheets from stylesheet i on
RECURSIVE copyStyleSheetsFrom(_, _, _, _, _, _)
copyStyleSheetsFrom(R, sheets, i, addedStylesheets, stylesheetMap, bookNumber) ==
  IF i > Len(sheets)
  THEN [res |-> R, added |-> addedStylesheets, map |-> stylesheetMap]
  ELSE LET stylesheet == sheets[i]
           contentHash == hash(stylesheet.content)
           uniqueFilename == UniqueFilename(bookNumber, stylesheet.basename)
       IN IF ~MapHas(addedStylesheets, contentHash)
          THEN copyStyleSheetsFrom(
                 addStylesheetContent(R, uniqueFilename, stylesheet.content).res,
                 sheets, i + 1,
                 MapSet(addedStylesheets, contentHash, uniqueFilename),
                 MapSet(stylesheetMap, PathOf(stylesheet), uniqueFilename),
                 bookNumber)
          ELSE copyStyleSheetsFrom(
                 R, sheets, i + 1, addedStylesheets,
                 MapSet(stylesheetMap, PathOf(stylesheet),
                        MapGet(addedStylesheets, contentHash)),
                 bookNumber)

copyStyleSheets(R, sourceEPUB, addedStylesheets, bookNumber) ==
  copyStyleSheetsFrom(R,
                      SelectSeq(sourceEPUB.stylesheets,
                                LAMBDA s : s.id # "default-style"),
                      1, addedStylesheets, <<>>, bookNumber)

\* the loop of copyImages from image i on; buffers gives the bytes each
\* Buffer object holds at the time of the call
RECURSIVE copyImagesFrom(_, _, _, _, _, _, _)
copyImagesFrom(R, imgs, i, addedImages, imageMap, bookNumber, buffers) ==
  IF i > Len(imgs)
  THEN [res |-> R, added |-> addedImages, map |-> imageMap]
  ELSE LET image == imgs[i]
           dataHash == hash(buffers[image.data])
           uniqueFilename == UniqueFilename(bookNumber, image.basename)
       IN IF ~MapHas(addedImages, dataHash)
          THEN copyImagesFrom(
                 addImageData(R, uniqueFilename, image.data).res,
                 imgs, i + 1,
                 MapSet(addedImages, dataHash, uniqueFilename),
                 MapSet(imageMap, PathOf(image), uniqueFilename),
                 bookNumber, buffers)
          ELSE copyImagesFrom(
                 R, imgs, i + 1, addedImages,
                 MapSet(imageMap, PathOf(image), MapGet(addedImages, dataHash)),
                 bookNumber, buffers)

copyImages(R, sourceEPUB, addedImages, bookNumber, buffers) ==
  copyImagesFrom(R, sourceEPUB.images, 1, addedImages, <<>>, bookNumber,
                 buffers)

\* The content of a chapter is a sequence of blocks; a src attribute is a
\* block of its own, written with either quote
Quotes == {"\"", "'"}

SrcAttr(q, path) == "src=" \o q \o path \o q

\* getSingleReplacement: four patterns with one replacement; a pattern is
\* the set of blocks it matches
getSingleReplacement(oldPath, newPath) ==
  LET alts == <<"../" \o oldPath.filename, oldPath.filename,
                "../" \o Join(oldPath.basename), Join(oldPath.basename)>>
  IN [i \in 1..4 |-> [pattern |-> {SrcAttr(q, alts[i]) : q \in Quotes},
                      replacement |-> SrcAttr("\"", "../" \o newPath)]]

\* Map.prototype.forEach of getAllReplacements over one of the two maps
RECURSIVE ReplacementsOf(_, _, _)
ReplacementsOf(map, dir, i) ==
  IF i > Len(map) THEN <<>>
  ELSE getSingleReplacement(map[i].key, dir \o Join(map[i].value))
         \o ReplacementsOf(map, dir, i + 1)

getAllReplacements(stylesheetMap, imageMap) ==
  ReplacementsOf(stylesheetMap, "styles/", 1)
    \o ReplacementsOf(imageMap, "images/", 1)

\* the replacements applied to one block one after the other, each to the
\* outcome of the one before
RECURSIVE ReplaceBlock(_, _, _)
ReplaceBlock(block, allReplacements, i) ==
  IF i > Len(allReplacements) THEN block
  ELSE ReplaceBlock(IF block \in allReplacements[i].pattern
                    THEN allReplacements[i].replacement ELSE block,
                    allReplacements, i + 1)

updatedContent(content, allReplacements) ==
  [j \in DOMAIN content |-> ReplaceBlock(content[j], allReplacements, 1)]

\* getRootChapters: the root ids that the Map still holds
getRootChapters(P) ==
  SelectSeq(P.rootChapterIds, LAMBDA id : id \in Range(P.chapters))

\* copyAllChapters over the chapter objects kids[i..] of the source heap O;
\* the recursion follows the children references of the source objects
RECURSIVE copyAllChapters(_, _, _, _, _, _)
copyAllChapters(D, O, kids, i, allReplacements, sectionId) ==
  IF i > Len(kids) THEN [pub |-> D, count |-> 0]
  ELSE LET chapter == O[kids[i]]
           copy == addChapter(D, sectionId,
                              updatedContent(chapter.content, allReplacements))
           below == copyAllChapters(copy.pub, O, chapter.children, 1,
                                    allReplacements, copy.id)
           rest == copyAllChapters(below.pub, O, kids, i + 1,
                                   allReplacements, sectionId)
       IN [pub |-> rest.pub, count |-> 1 + below.count + rest.count]

\* addEpubAsChapter(chapter, sourceEPUB, addedStylesheets, addedImages,
\* bookNumber) with a section without parent
addEpubAsChapter(D, R, sourceEPUB, addedStylesheets, addedImages, bookNumber, buffers) ==
  LET section == addChapter(D, NULL, <<>>)
      sheets == copyStyleSheets(R, sourceEPUB, addedStylesheets, bookNumber)
      imgs == copyImages(sheets.res, sourceEPUB, addedImages, bookNumber,
                         buffers)
      copied == copyAllChapters(section.pub, sourceEPUB.pub.objs,
                                getRootChapters(sourceEPUB.pub), 1,
                                getAllReplacements(sheets.map, imgs.map),
                                section.id)
  IN [pub |-> copied.pub, res |-> imgs.res,
      addedStylesheets |-> sheets.added, addedImages |-> imgs.added,
      stylesheetMap |-> sheets.map, imageMap |-> imgs.map,
      sectionId |-> section.id, chapterCount |-> copied.count]

\* the bytes of the Buffer objects that hold the images of the sources
SourceBuffers == <<"p", "p", "q">>

\* before the first merge: the caller's two maps are new
NoMerge == [addedStylesheets |-> <<>>, addedImages |-> <<>>,
            buffers |-> SourceBuffers, stylesheetMap |-> <<>>,
            imageMap |-> <<>>, source |-> 0, chapterCount |-> 0]

----------------------------------------------------------------------------
(* The entries of an exported archive *)

\* generateContainer: the full-path of the rootfile elements of
\* META-INF/container.xml
generateContainer == <<"EPUB/package.opf">>

\* the paths given to zip.file by export; the version 2 archive is the one
\* with the NCX
EntryPaths(archive) ==
  {"mimetype", "META-INF/container.xml", "EPUB/package.opf"}
    \cup {"EPUB/" \o archive.stylesheets[i] : i \in DOMAIN archive.stylesheets}
    \cup {"EPUB/" \o f : f \in DOMAIN archive.files}
    \cup {"EPUB/" \o archive.images[i] : i \in DOMAIN archive.images}
    \cup (IF "ncx" \in DOMAIN archive THEN {"EPUB/toc.ncx"}
          ELSE {"EPUB/nav.xhtml"})

----------------------------------------------------------------------------
(* Actions *)

\* the outcome of a call, with the warnings the call recorded
Outcome(op, error, id) ==
  [op |-> op, error |-> error, id |-> id, warnings |-> <<>>]

\* Chapter objects that are neither in the Map nor referenced, directly or
\* through other objects, by a children array of a chapter in the Map can
\* no longer be observed through the builder: the engine's garbage.  Their
\* heap slot is kept (the id stays used) with its fields cleared.
RECURSIVE ReachableFrom(_, _)
ReachableFrom(O, S) ==
  LET T == S \cup UNION {Range(O[c].children) : c \in S}
  IN IF T = S THEN S ELSE ReachableFrom(O, T)

Collected == [filename |-> "", parentId |-> NULL, order |-> 0,
              children |-> <<>>, content |-> <<>>, fragment |-> "",
              sourceChapterId |-> NULL]

Collect(P) ==
  LET live == ReachableFrom(P.objs, Range(P.chapters))
  IN [i \in DOMAIN P.objs |-> IF i \in live THEN P.objs[i] ELSE Collected]

SetPub(P) ==
  /\ objs' = Collect(P)
  /\ chapters' = P.chapters
  /\ rootChapterIds' = P.rootChapterIds
  /\ chapterCounter' = P.chapterCounter

Init ==
  /\ pc = "start"
  /\ parsed = FALSE
  /\ objs = <<>>
  /\ chapters = <<>>
  /\ rootChapterIds = <<>>
  /\ chapterCounter = 0
  /\ metadata = [title |-> "", creator |-> ""]
  /\ images = <<>>
  /\ stylesheets = <<>>
  /\ uuids = 0
  /\ spine = <<>>
  /\ filesInNav = {}
  /\ navStack = <<>>
  /\ result = Outcome("none", "", NULL)
  /\ exported = NoExport
  /\ unzip = NotOpened
  /\ merge = NoMerge

DefaultStylesheet == [id |-> "default-style", filename |-> "css/styles.css"]

\* the constructor's checks and assignments
Constructor(title, creator) ==
  IF title = "" THEN [error |-> "Title is required"]
  ELSE IF creator = "" THEN [error |-> "Creator/Author is required"]
  ELSE [error |-> "", metadata |-> [title |-> title, creator |-> creator],
        stylesheets |-> <<DefaultStylesheet>>]

\* new EPUB2Builder(metadata) / new EPUB3Builder(metadata)
New(title, creator) ==
  /\ pc = "start"
  /\ LET c == Constructor(title, creator)
     IN IF c.error # ""
        THEN /\ pc' = "failed"
             /\ UNCHANGED <<metadata, stylesheets>>
        ELSE /\ pc' = "ready"
             /\ metadata' = c.metadata
             /\ stylesheets' = c.stylesheets
  /\ result' = Outcome("new", Constructor(title, creator).error, NULL)
  /\ UNCHANGED <<merge, unzip, exported, parsed, chapterVars, images, uuids, parseVars>>

\* parseBuffer up to the walk over the navMap: the builder is constructed
\* from the archive's metadata and the spine map is built
ParseBegin(title, creator, sp) ==
  /\ pc = "start"
  /\ LET c == Constructor(title, creator)
     IN IF c.error # ""
        THEN /\ pc' = "failed"
             /\ UNCHANGED <<metadata, stylesheets, spine, parsed>>
        ELSE /\ pc' = "nav"
             /\ parsed' = TRUE
             /\ metadata' = c.metadata
             /\ stylesheets' = c.stylesheets
             /\ spine' = sp
  /\ result' = Outcome("parseBuffer", Constructor(title, creator).error, NULL)
  /\ UNCHANGED <<merge, unzip, exported, chapterVars, images, uuids, filesInNav, navStack>>

\* one call of processNavPoint, entered from the navMap loop or from the
\* children loop of the enclosing call
NavEnter(href, fragment) ==
  /\ pc = "nav"
  /\ Len(navStack) < MaxNavDepth
  /\ Len(objs) + NavCreates(Pub, href, fragment) <= MaxChapters
  /\ chapterCounter + NavCreates(Pub, href, fragment) <= MaxCounter
  /\ LET parentId == IF navStack = <<>> THEN NULL ELSE navStack[Len(navStack)]
         r == processNavPoint(Pub, spine, href, fragment, parentId)
     IN /\ SetPub(r.pub)
        /\ navStack' = Append(navStack, r.id)
  /\ filesInNav' = filesInNav \cup {href}
  /\ UNCHANGED <<merge, unzip, exported, pc, parsed, metadata, resourceVars, spine, result>>

\* the children loop of a processNavPoint call is exhausted: it returns
NavLeave ==
  /\ pc = "nav"
  /\ navStack # <<>>
  /\ navStack' = SubSeq(navStack, 1, Len(navStack) - 1)
  /\ UNCHANGED <<merge, unzip, exported, pc, parsed, chapterVars, metadata, resourceVars, spine,
                 filesInNav, result>>

\* the navMap loop is exhausted: orphans are added, the images are
\* extracted and parseBuffer returns; when addImage throws parseBuffer throws
\* and no builder is returned
ParseEnd(imageNames) ==
  /\ pc = "nav"
  /\ navStack = <<>>
  /\ Len(objs) + Cardinality(Orphans(spine, filesInNav)) <= MaxChapters
  /\ chapterCounter + Cardinality(Orphans(spine, filesInNav)) <= MaxCounter
  /\ uuids + Len(imageNames) <= MaxResources
  /\ LET im == extractImages(Res, imageNames, 1)
     IN IF im.error # ""
        THEN /\ pc' = "failed"
             /\ SetPub(EmptyPub)
             /\ UNCHANGED <<images, uuids>>
        ELSE /\ pc' = "ready"
             /\ SetPub(handleOrphanedChapters(Pub, spine, filesInNav, 1))
             /\ images' = im.res.images
             /\ uuids' = im.res.uuids
  /\ result' = [Outcome("parseBuffer", extractImages(Res, imageNames, 1).error,
                         NULL)
                 EXCEPT !.warnings = OrphanWarnings(<<>>, spine, filesInNav, 1)]
  /\ spine' = <<>>
  /\ filesInNav' = {}
  /\ UNCHANGED <<merge, unzip, exported, parsed, metadata, stylesheets, navStack>>

AddChapter(parentId, content) ==
  /\ pc = "ready"
  /\ Len(objs) < MaxChapters
  /\ chapterCounter < MaxCounter
  /\ LET r == addChapter(Pub, parentId, content)
     IN /\ SetPub(r.pub)
        /\ result' = Outcome("addChapter", r.error,
                             IF r.error = "" THEN r.id ELSE parentId)
  /\ UNCHANGED <<merge, unzip, exported, pc, parsed, metadata, resourceVars, parseVars>>

DeleteChapter(chapterId) ==
  /\ pc = "ready"
  /\ LET r == deleteChapter(Pub, chapterId)
     IN /\ SetPub(r.pub)
        /\ result' = Outcome("deleteChapter", r.error, chapterId)
  /\ UNCHANGED <<merge, unzip, exported, pc, parsed, metadata, resourceVars, parseVars>>

SetChapterContent(chapterId, content) ==
  /\ pc = "ready"
  /\ LET r == setChapterContent(Pub, chapterId, content)
     IN /\ SetPub(r.pub)
        /\ result' = Outcome("setChapterContent", r.error, chapterId)
  /\ UNCHANGED <<merge, unzip, exported, pc, parsed, metadata, resourceVars, parseVars>>

AppendToChapter(chapterId, content) ==
  /\ pc = "ready"
  /\ chapterId \in Range(chapters) =>
       Len(objs[chapterId].content) + Len(content) <= MaxContentLen
  /\ LET r == appendToChapter(Pub, chapterId, content)
     IN /\ SetPub(r.pub)
        /\ result' = Outcome("appendToChapter", r.error, chapterId)
  /\ UNCHANGED <<merge, unzip, exported, pc, parsed, metadata, resourceVars, parseVars>>

SetMetadata(partial) ==
  /\ pc = "ready"
  /\ metadata' = setMetadata(metadata, partial)
  /\ result' = Outcome("setMetadata", "", NULL)
  /\ UNCHANGED <<merge, unzip, exported, pc, parsed, chapterVars, resourceVars, parseVars>>

AddImage(name) ==
  /\ pc = "ready"
  /\ uuids < MaxResources
  /\ LET r == addImage(Res, name)
     IN /\ images' = r.res.images
        /\ uuids' = r.res.uuids
        /\ result' = Outcome("addImage", r.error, NULL)
  /\ UNCHANGED <<merge, unzip, exported, pc, parsed, chapterVars, metadata, stylesheets, parseVars>>

DeleteImage(imageId) ==
  /\ pc = "ready"
  /\ images' = deleteImage(Res, imageId).images
  /\ result' = Outcome("deleteImage", "", NULL)
  /\ UNCHANGED <<merge, unzip, exported, pc, parsed, chapterVars, metadata, stylesheets, uuids, parseVars>>

AddStylesheet(name) ==
  /\ pc = "ready"
  /\ uuids < MaxResources
  /\ LET r == addStylesheet(Res, name)
     IN /\ stylesheets' = r.res.stylesheets
        /\ uuids' = r.res.uuids
        /\ result' = Outcome("addStylesheet", r.error, NULL)
  /\ UNCHANGED <<merge, unzip, exported, pc, parsed, chapterVars, metadata, images, parseVars>>

\* export(options) with options.validate = doValidate
Export(doValidate) ==
  /\ pc = "ready"
  /\ exported' = export(metadata, Pub, Res, doValidate)
  /\ result' = Outcome("export",
                       IF exported'.message = <<>> THEN "" ELSE exported'.message[1],
                       NULL)
  /\ UNCHANGED <<merge, unzip, pc, parsed, chapterVars, metadata, resourceVars, parseVars>>

\* parseBuffer up to the end of unzip: the archive is loaded and the forEach
\* callback has run over its entries
Unzip(z) ==
  /\ pc = "start"
  /\ ~unzip.opened
  /\ LET r == unzipArchive(z)
     IN /\ unzip' = r.unzip
        /\ pc' = IF r.error # "" THEN "failed" ELSE pc
        /\ result' = Outcome("parseBuffer", r.error, NULL)
  /\ UNCHANGED <<merge, exported, parsed, chapterVars, metadata, resourceVars, parseVars>>

\* the then-callback of file.async('nodebuffer') of entry i.  Nothing awaits
\* the promise: it runs at any moment after unzip, and its throw is a
\* rejection without handler, which the runtime reports and, depending on
\* its unhandled-rejections mode, survives or ends the process on.
SizeCallback(i, fatal) ==
  /\ pc # "crashed"
  /\ i \in unzip.pending
  /\ LET total == unzip.totalSize + unzip.entries[i].size
     IN /\ unzip' = [unzip EXCEPT !.pending = @ \ {i},
                                  !.totalSize = total,
                                  !.unhandled = @ \/ total > MAX_SIZE]
        /\ pc' = IF total > MAX_SIZE /\ fatal THEN "crashed" ELSE pc
  /\ UNCHANGED <<merge, exported, parsed, chapterVars, metadata, resourceVars, parseVars,
                 result>>

\* export() of the EPUB 3 builder with the default options, then
\* EPUB3Builder.parseBuffer of the buffer it returned: the builder parsed
\* takes the place of the one exported
ExportAndParse3 ==
  /\ pc = "ready"
  /\ exported' = export3(metadata, Pub, Res, TRUE)
  /\ IF ~exported'.archive.produced
     THEN /\ result' = Outcome("export", exported'.message[1], NULL)
          /\ UNCHANGED <<pc, parsed, chapterVars, metadata, stylesheets>>
     ELSE LET opf == exported'.archive.opf
              c == Constructor(opf.title, opf.creator)
          IN /\ result' = [Outcome("parseBuffer", c.error, NULL)
                            EXCEPT !.warnings = extractWarnings3(exported'.archive)]
             /\ parsed' = TRUE
             /\ IF c.error # ""
                THEN /\ pc' = "failed"
                     /\ SetPub(EmptyPub)
                     /\ UNCHANGED <<metadata, stylesheets>>
                ELSE /\ pc' = "ready"
                     /\ SetPub(extractChapters3(exported'.archive))
                     /\ metadata' = c.metadata
                     /\ stylesheets' = c.stylesheets
  /\ UNCHANGED <<merge, unzip, images, uuids, parseVars>>

\* The publications that are merged.  Each is the state of a builder after
\* the calls named.
EmptyRes == [images |-> <<>>, stylesheets |-> <<DefaultStylesheet>>, uuids |-> 0]

SCss == <<"s", ".", "c", "s", "s">>
TCss == <<"t", ".", "c", "s", "s">>
APng == <<"a", ".", "p", "n", "g">>
CPng == <<"c", ".", "p", "n", "g">>

\* addChapter A, addChapter B under A, addStylesheet s.css, addImage a.png
SourceOne ==
  LET a == addChapter(EmptyPub, NULL, <<"x", SrcAttr("\"", "../images/a.png")>>)
      b == addChapter(a.pub, a.id, <<"x">>)
      r == addImageData(addStylesheetContent(EmptyRes, SCss, "X").res, APng, 1).res
  IN [pub |-> b.pub, stylesheets |-> r.stylesheets, images |-> r.images]

\* two root chapters, the stylesheets s.css (the text of SourceOne's) and
\* t.css, the images a.png (the bytes of SourceOne's, in a Buffer of its
\* own) and c.png
SourceTwo ==
  LET a == addChapter(EmptyPub, NULL, <<SrcAttr("'", "c.png")>>)
      b == addChapter(a.pub, NULL, <<>>)
      s == addStylesheetContent(addStylesheetContent(EmptyRes, SCss, "X").res,
                                TCss, "Y").res
      r == addImageData(addImageData(s, APng, 2).res, CPng, 3).res
  IN [pub |-> b.pub, stylesheets |-> r.stylesheets, images |-> r.images]

\* parseBuffer of an archive whose table of contents lists a.xhtml at the
\* top level and again inside the entry of text/chapter-2.xhtml
SourceThree ==
  LET a == processNavPoint(EmptyPub, <<>>, "a.xhtml", "", NULL)
      b == processNavPoint(a.pub, <<>>, "text/chapter-2.xhtml", "", NULL)
      c == processNavPoint(b.pub, <<>>, "a.xhtml", "", b.id)
  IN [pub |-> c.pub, stylesheets |-> <<DefaultStylesheet>>, images |-> <<>>]

\* one chapter, addStylesheet s.css twice, with two texts
SourceFour ==
  LET a == addChapter(EmptyPub, NULL, <<"x">>)
      s == addStylesheetContent(addStylesheetContent(EmptyRes, SCss, "X").res,
                                SCss, "Z").res
  IN [pub |-> a.pub, stylesheets |-> s.stylesheets, images |-> <<>>]

\* the name copyImages gives a.png in a merge with book number 1
Book1APng == UniqueFilename(1, APng)

\* one chapter that names the stylesheet t.css and the image a.png; the
\* images a.png and book1-a.png, with different bytes
SourceFive ==
  LET a == addChapter(EmptyPub, NULL, <<SrcAttr("\"", "../css/t.css"),
                                        SrcAttr("\"", "../images/a.png")>>)
      s == addStylesheetContent(EmptyRes, TCss, "Y").res
      r == addImageData(addImageData(s, APng, 1).res, Book1APng, 3).res
  IN [pub |-> a.pub, stylesheets |-> r.stylesheets, images |-> r.images]

Sources == <<SourceOne, SourceTwo, SourceThree, SourceFour, SourceFive>>

BookNumbers == {1, 2}

\* addEpubAsChapter with source k and the maps the caller keeps
AddEpubAsChapter(k, bookNumber) ==
  /\ pc = "ready"
  /\ LET r == addEpubAsChapter(Pub, Res, Sources[k], merge.addedStylesheets,
                               merge.addedImages, bookNumber, merge.buffers)
     IN /\ Len(r.pub.objs) <= MaxMerged
        /\ SetPub(r.pub)
        /\ images' = r.res.images
        /\ stylesheets' = r.res.stylesheets
        /\ uuids' = r.res.uuids
        /\ merge' = [merge EXCEPT !.addedStylesheets = r.addedStylesheets,
                                  !.addedImages = r.addedImages,
                                  !.stylesheetMap = r.stylesheetMap,
                                  !.imageMap = r.imageMap,
                                  !.source = k,
                                  !.chapterCount = r.chapterCount]
        /\ result' = Outcome("addEpubAsChapter", "", r.sectionId)
  /\ UNCHANGED <<unzip, exported, pc, parsed, metadata, parseVars>>

\* getImage(imageId).data.fill(...): the caller writes into the Buffer of
\* an image of the destination
WriteImageData(i) ==
  /\ pc = "ready"
  /\ i \in DOMAIN images
  /\ merge.buffers[images[i].data] # "w"
  /\ merge' = [merge EXCEPT !.buffers[images[i].data] = "w"]
  /\ result' = Outcome("writeImageData", "", NULL)
  /\ UNCHANGED <<unzip, exported, pc, parsed, chapterVars, metadata,
                 resourceVars, parseVars>>

(* Conversion of a version 2 publication: toEPUB3 *)

\* the first pass of toEPUB3 from the i-th entry of this.chapters on; E is
\* the new builder's chapter part, chapterMap maps old ids to new ids.  A
\* parent the map does not hold yet gives undefined, that is no parent.
RECURSIVE toEPUB3Chapters(_, _, _, _)
toEPUB3Chapters(P, i, E, chapterMap) ==
  IF i > Len(P.chapters) THEN E
  ELSE LET chapter == P.objs[P.chapters[i]]
           parentId == IF chapter.parentId # NULL
                          /\ MapHas(chapterMap, chapter.parentId)
                       THEN MapGet(chapterMap, chapter.parentId)
                       ELSE NULL
           r == addChapter(E, parentId, chapter.content)
       IN toEPUB3Chapters(P, i + 1, r.pub,
                          MapSet(chapterMap, P.chapters[i], r.id))

\* the image loop of toEPUB3 from image i on.  The name handed to addImage
\* is what follows the last '/' of the stored filename, the sanitized name
\* of the image: it has the extension that was accepted before and
\* sanitizes to itself, so the new image gets the stored filename again.
RECURSIVE toEPUB3Images(_, _, _)
toEPUB3Images(R, i, E) ==
  IF i > Len(R.images) THEN E
  ELSE toEPUB3Images(R, i + 1,
         [E EXCEPT !.images = Append(@, [id |-> generateImageId(E),
                                         filename |-> R.images[i].filename]),
                   !.uuids = @ + 1])

\* the stylesheet loop of toEPUB3, likewise, without the default stylesheet
RECURSIVE toEPUB3Stylesheets(_, _, _)
toEPUB3Stylesheets(R, i, E) ==
  IF i > Len(R.stylesheets) THEN E
  ELSE toEPUB3Stylesheets(R, i + 1,
         IF R.stylesheets[i].id = "default-style" THEN E
         ELSE [E EXCEPT !.stylesheets =
                 Append(@, [id |-> generateStylesheetId(E),
                            filename |-> R.stylesheets[i].filename]),
                        !.uuids = @ + 1])

toEPUB3(m, P, R) ==
  LET c == Constructor(m.title, m.creator)
  IN IF c.error # "" THEN [error |-> c.error]
     ELSE [error |-> "", metadata |-> c.metadata,
           pub |-> toEPUB3Chapters(P, 1, EmptyPub, <<>>),
           res |-> toEPUB3Stylesheets(R, 1,
                     toEPUB3Images(R, 1,
                       [images |-> <<>>, stylesheets |-> c.stylesheets,
                        uuids |-> 0]))]

\* toEPUB3() of a parsed version 2 publication: the builder returned takes
\* the place of the one converted
ToEPUB3 ==
  /\ pc = "ready"
  /\ parsed
  /\ LET r == toEPUB3(metadata, Pub, Res)
     IN /\ result' = Outcome("toEPUB3", r.error, NULL)
        /\ IF r.error # ""
           THEN UNCHANGED <<parsed, chapterVars, metadata, resourceVars>>
           ELSE /\ parsed' = FALSE
                /\ SetPub(r.pub)
                /\ metadata' = r.metadata
                /\ images' = r.res.images
                /\ stylesheets' = r.res.stylesheets
                /\ uuids' = r.res.uuids
  /\ UNCHANGED <<merge, unzip, exported, pc, parseVars>>

\* export(options) of the EPUB 3 builder
Export3(doValidate) ==
  /\ pc = "ready"
  /\ exported' = export3(metadata, Pub, Res, doValidate)
  /\ result' = Outcome("export",
                       IF exported'.message = <<>> THEN "" ELSE exported'.message[1],
                       NULL)
  /\ UNCHANGED <<merge, unzip, pc, parsed, chapterVars, metadata, resourceVars, parseVars>>

\* extractChapters finds no NCX, or the NCX is not well-formed XML: the
\* navigation pass does not start, a warning is recorded and the chapters
\* are taken from the spine
ParseFallback ==
  /\ pc = "nav"
  /\ chapters = <<>> /\ navStack = <<>> /\ filesInNav = {}
  /\ Len(objs) + Len(spine) <= MaxChapters
  /\ chapterCounter + Len(spine) <= MaxCounter
  /\ pc' = "ready"
  /\ SetPub(extractChaptersFromSpine(Pub, spine, 1))
  /\ result' = [Outcome("parseBuffer", "", NULL)
                 EXCEPT !.warnings = addWarning(<<>>, "Failed to parse NCX", "")]
  /\ spine' = <<>>
  /\ filesInNav' = {}
  /\ UNCHANGED <<merge, unzip, exported, parsed, metadata, resourceVars, navStack>>

\* a processNavPoint call for href has to read the content document and
\* the read is rejected (the entry is corrupt): the catch of extractChapters
\* records a warning and calls extractChaptersFromSpine on the builder as
\* it is.  When the spine lists the document, the fallback reads it too,
\* its rejection is not caught and parseBuffer throws.
NavFail(href) ==
  /\ pc = "nav"
  /\ Len(navStack) < MaxNavDepth
  /\ FindByFile(Pub, href) = NULL
  /\ Len(objs) + Len(spine) <= MaxChapters
  /\ chapterCounter + Len(spine) <= MaxCounter
  /\ IF href \in Range(spine)
     THEN /\ pc' = "failed"
          /\ SetPub(EmptyPub)
          /\ result' = Outcome("parseBuffer", "Failed to parse EPUB buffer", NULL)
     ELSE /\ pc' = "ready"
          /\ SetPub(extractChaptersFromSpine(Pub, spine, 1))
          /\ result' = [Outcome("parseBuffer", "", NULL)
                         EXCEPT !.warnings =
                           addWarning(<<>>, "Failed to parse NCX", "")]
  /\ spine' = <<>>
  /\ filesInNav' = {}
  /\ navStack' = <<>>
  /\ UNCHANGED <<merge, unzip, exported, parsed, metadata, resourceVars>>

ImageIds == {"image-" \o ToString(n) : n \in 1..MaxResources}

----------------------------------------------------------------------------
(* Specifications *)

\* The build API on a freshly constructed publication
Next ==
  \/ \E t \in Strings, c \in Strings : New(t, c)
  \/ \E p \in {NULL} \cup ChapterIds, c \in Contents : AddChapter(p, c)
  \/ \E id \in ChapterIds : DeleteChapter(id)
  \/ \E id \in ChapterIds, c \in Contents : SetChapterContent(id, c)
  \/ \E id \in ChapterIds, c \in Contents : AppendToChapter(id, c)

Spec == Init /\ [][Next]_vars

\* parseBuffer, then addChapter and deleteChapter on the publication returned
NextParse ==
  \/ \E t \in Strings, c \in Strings, sp \in Spines : ParseBegin(t, c, sp)
  \/ \E h \in Hrefs, f \in Fragments : NavEnter(h, f)
  \/ NavLeave
  \/ \E im \in ArchiveImages : ParseEnd(im)
  \/ \E p \in {NULL} \cup ChapterIds : AddChapter(p, <<>>)
  \/ \E id \in ChapterIds : DeleteChapter(id)

SpecParse == Init /\ [][NextParse]_vars

\* Metadata, images and stylesheets of a freshly constructed publication.
\* These operations leave the chapters untouched, and the chapter operations
\* of Spec leave metadata, images and stylesheets untouched.
NextRes ==
  \/ \E t \in Strings, c \in Strings : New(t, c)
  \/ \E m \in Partials : SetMetadata(m)
  \/ \E n \in ImageNames : AddImage(n)
  \/ \E id \in ImageIds : DeleteImage(id)
  \/ \E n \in StyleNames : AddStylesheet(n)

SpecRes == Init /\ [][NextRes]_vars

\* Metadata and chapters of a freshly constructed publication, and export
NextExport ==
  \/ \E t \in Strings, c \in Strings : New(t, c)
  \/ \E m \in Partials : SetMetadata(m)
  \/ \E p \in {NULL} \cup ChapterIds : AddChapter(p, <<>>)
  \/ \E id \in ChapterIds : DeleteChapter(id)
  \/ \E v \in BOOLEAN : Export(v)

SpecExport == Init /\ [][NextExport]_vars

\* parseBuffer of an archive from unzip on; the archive holds, beside the
\* entries listed, a well-formed publication with one content document
NextUnzip ==
  \/ \E z \in Zips : Unzip(z)
  \/ \E i \in 1..MaxEntries, fatal \in BOOLEAN : SizeCallback(i, fatal)
  \/ unzip.opened /\ ParseBegin("T", "T", <<>>)
  \/ NavEnter("a.xhtml", "")
  \/ NavLeave
  \/ ParseEnd(<<>>)

SpecUnzip == Init /\ [][NextUnzip]_vars

\* The build API on a freshly constructed EPUB 3 publication, then export
\* and parseBuffer of the archive
NextRoundTrip ==
  \/ \E t \in Strings, c \in Strings : New(t, c)
  \/ ~parsed /\ \E p \in {NULL} \cup ChapterIds, c \in Contents : AddChapter(p, c)
  \/ ~parsed /\ \E id \in ChapterIds : DeleteChapter(id)
  \/ ~parsed /\ ExportAndParse3

SpecRoundTrip == Init /\ [][NextRoundTrip]_vars

\* A freshly constructed destination, merges into it with one pair of seen
\* maps, and writes into the image buffers of the destination
NextMerge ==
  \/ New("T", "T")
  \/ \E k \in DOMAIN Sources, n \in BookNumbers : AddEpubAsChapter(k, n)
  \/ \E i \in 1..MaxMerged : WriteImageData(i)

SpecMerge == Init /\ [][NextMerge]_vars

\* parseBuffer of a version 2 archive, toEPUB3 of the publication returned,
\* then export of the version 3 publication and parseBuffer of its archive
NextConvert ==
  \/ \E t \in Strings, c \in Strings, sp \in Spines : ParseBegin(t, c, sp)
  \/ \E h \in Hrefs, f \in Fragments : NavEnter(h, f)
  \/ NavLeave
  \/ \E im \in ArchiveImages : ParseEnd(im)
  \/ ToEPUB3
  \/ result.op = "toEPUB3" /\ ExportAndParse3

SpecConvert == Init /\ [][NextConvert]_vars

\* hrefs and spines of archives with a content document named nav.xhtml
NavHrefs == {"a.xhtml", "nav.xhtml"}
NavSpines == {<<>>, <<"nav.xhtml", "a.xhtml">>}

\* parseBuffer, then export of the publication returned in either version
NextParseExport ==
  \/ \E sp \in NavSpines : ParseBegin("T", "T", sp)
  \/ \E h \in NavHrefs, f \in Fragments : NavEnter(h, f)
  \/ NavLeave
  \/ ParseEnd(<<>>)
  \/ \E v \in BOOLEAN : Export(v)
  \/ \E v \in BOOLEAN : Export3(v)

SpecParseExport == Init /\ [][NextParseExport]_vars

\* the spines of archives whose navigation names a document outside the spine
FallbackSpines == {<<>>, <<"a.xhtml">>}

\* parseBuffer with the navigation pass consumed, not started, or failing
\* part-way
NextFallback ==
  \/ \E sp \in FallbackSpines : ParseBegin("T", "T", sp)
  \/ \E h \in Hrefs, f \in Fragments : NavEnter(h, f)
  \/ NavLeave
  \/ ParseEnd(<<>>)
  \/ ParseFallback
  \/ \E h \in Hrefs : NavFail(h)

SpecFallback == Init /\ [][NextFallback]_vars

----------------------------------------------------------------------------
(* Properties *)

Live == Range(chapters)

\* number of positions of the sequence s holding x
Count(s, x) == Cardinality({i \in DOMAIN s : s[i] = x})

\* number of times id is listed in the children arrays of the chapters of S
RECURSIVE ChildListings(_, _)
ChildListings(S, id) ==
  IF S = {} THEN 0
  ELSE LET c == CHOOSE y \in S : TRUE
       IN Count(objs[c].children, id) + ChildListings(S \ {c}, id)

\* number of times id is listed in rootChapterIds and in the children
\* arrays of the chapters of the Map
Listings(id) == Count(rootChapterIds, id) + ChildListings(Live, id)

Listed == Range(rootChapterIds) \cup UNION {Range(objs[c].children) : c \in Live}

\* following parentId from c reaches null within n steps
RECURSIVE ReachesNull(_, _)
ReachesNull(c, n) ==
  IF c = NULL THEN TRUE
  ELSE IF n = 0 THEN FALSE
  ELSE ReachesNull(objs[c].parentId, n - 1)

\* C1: addChapter with a parent id that names no chapter throws and leaves
\* chapters, rootChapterIds, every children array and chapterCounter as they
\* were before the call.
C1_UnknownParentLeavesUnchanged ==
  [][(result'.op = "addChapter" /\ result'.error = "ParentNotFound")
       => UNCHANGED chapterVars]_vars

\* C2: in a publication built through the build API every id listed in
\* rootChapterIds or in a children array names a chapter of the Map, and no
\* id is listed more than once over all those lists.
C2_ListedOnceAndPresent ==
  (pc = "ready" /\ ~parsed) =>
    /\ Listed \subseteq Live
    /\ \A id \in ChapterIds : Listings(id) <= 1

\* a nested chapter survives the deletion of another chapter
C2_Witness ==
  /\ pc = "ready" /\ ~parsed
  /\ result.op = "deleteChapter" /\ result.error = ""
  /\ \E c \in Live : objs[c].parentId # NULL
  /\ rootChapterIds # <<>>

\* C3: in a publication built through the build API, deleteChapter calls
\* included, the parentId of every chapter is null or the id of a chapter of
\* the Map.
C3_ParentExists ==
  (pc = "ready" /\ ~parsed) =>
    \A c \in Live : objs[c].parentId = NULL \/ objs[c].parentId \in Live

\* deleteChapter has returned, two chapters or more are gone from the Map
\* and another chapter is still there
C3_Witness ==
  /\ pc = "ready" /\ ~parsed
  /\ result.op = "deleteChapter" /\ result.error = ""
  /\ Len(objs) - Len(chapters) >= 2
  /\ Live # {}

\* C4: at every API boundary, for built and for parsed publications,
\* following parentId from any chapter reaches null in finitely many steps.
C4_ParentRelationAcyclic ==
  pc = "ready" => \A c \in Live : ReachesNull(c, Len(objs))

\* C5: in a publication returned by parseBuffer a chapter that is not a
\* fragment chapter and has parent P is listed in P's children array and
\* nowhere else: not in rootChapterIds, not in another chapter's children.
C5_ReparentedListedOnce ==
  (pc = "ready" /\ parsed /\ result.op = "parseBuffer") =>
    \A c \in Live :
      (objs[c].fragment = "" /\ objs[c].parentId # NULL) =>
        /\ objs[c].parentId \in Live
        /\ c \in Range(objs[objs[c].parentId].children)
        /\ c \notin Range(rootChapterIds)
        /\ \A q \in Live \ {objs[c].parentId} : c \notin Range(objs[q].children)

\* C6: at every API boundary no two chapters of the Map that hold a file of
\* their own (chapters without a fragment) have the same filename, also
\* after parseBuffer and after addChapter on a parsed publication.
C6_ChapterFilenamesUnique ==
  pc = "ready" =>
    \A c, d \in Live :
      (c # d /\ objs[c].fragment = "" /\ objs[d].fragment = "") =>
        objs[c].filename # objs[d].filename

\* C7: no two images have the same filename and no two stylesheets have the
\* same filename.
C7_ResourceFilenamesUnique ==
  pc = "ready" =>
    /\ \A i, j \in DOMAIN images :
         i # j => images[i].filename # images[j].filename
    /\ \A i, j \in DOMAIN stylesheets :
         i # j => stylesheets[i].filename # stylesheets[j].filename

\* C8: at every API boundary metadata.title and metadata.creator are
\* non-empty.
C8_TitleCreatorNonEmpty ==
  pc = "ready" => (metadata.title # "" /\ metadata.creator # "")

\* C9: at every API boundary a chapter with a fragment has a sourceChapterId
\* that names a chapter of the Map which has no fragment and holds the
\* markup of the same file.
C9_FragmentHasBackingChapter ==
  pc = "ready" =>
    \A c \in Live :
      objs[c].fragment # "" =>
        /\ objs[c].sourceChapterId \in Live
        /\ objs[objs[c].sourceChapterId].fragment = ""
        /\ objs[objs[c].sourceChapterId].filename = objs[c].filename

\* C10: deleteChapter(id) on a chapter of the Map completes, removes from the
\* Map exactly id and the chapters reached from it through the children
\* arrays, removes id from its parent's children array (from rootChapterIds
\* when it has no parent) and leaves the order of every other chapter as it
\* was.
C10_DeleteRemovesSubtree ==
  [][(pc = "ready" /\ result'.op = "deleteChapter" /\ result'.id \in Live) =>
       LET id == result'.id
           gone == ReachableFrom(objs, {id})
       IN /\ result'.error = ""
          /\ Range(chapters') = Live \ gone
          /\ IF objs[id].parentId = NULL
             THEN id \notin Range(rootChapterIds')
             ELSE objs[id].parentId \in Range(chapters') =>
                    id \notin Range(objs'[objs[id].parentId].children)
          /\ \A c \in Range(chapters') : objs'[c].order = objs[c].order]_vars

\* C11: a successful addChapter gives the new chapter the order 1 + the
\* largest order among the chapters of the Map at the call (1 when the Map is
\* empty), and after it no two chapters of a publication built through the
\* build API have the same order.
C11_OrderIsMaxPlusOne ==
  [][(pc = "ready" /\ ~parsed /\ result'.op = "addChapter"
        /\ result'.error = "") =>
       /\ objs'[result'.id].order = 1 + MaxOf({objs[c].order : c \in Live})
       /\ \A c, d \in Range(chapters') :
            c # d => objs'[c].order # objs'[d].order]_vars

\* addChapter has returned a chapter after a deletion, next to another chapter
C11_Witness ==
  /\ pc = "ready" /\ ~parsed
  /\ result.op = "addChapter" /\ result.error = ""
  /\ Len(objs) > Len(chapters)
  /\ Cardinality(Live) >= 2

\* C12: export with validation enabled on a publication for which validate
\* reports errors throws an Error whose message holds every reported error
\* and produces no archive; an archive is produced only when validate
\* reports no error or validation was disabled.
C12_ExportRejectsInvalid ==
  [][result'.op = "export" =>
       LET errors == validate(metadata, Pub)
       IN /\ (exported'.validate /\ errors # <<>>) =>
               /\ ~exported'.archive.produced
               /\ result'.error = "EPUB validation failed:"
               /\ Range(errors) \subseteq Range(exported'.message)
          /\ exported'.archive.produced =>
               (errors = <<>> \/ ~exported'.validate)]_vars

\* a validating export of a publication with chapters was rejected with two
\* errors
C12_Witness ==
  /\ result.op = "export"
  /\ exported.validate /\ ~exported.archive.produced
  /\ Len(exported.message) = 3
  /\ chapters # <<>>

\* number of entries of the archive given to parseBuffer
EntryCount == unzip.padding + Len(unzip.entries)

\* uncompressed bytes of the entries of the archive given to parseBuffer
RECURSIVE SumSizes(_)
SumSizes(es) == IF es = <<>> THEN 0 ELSE Head(es).size + SumSizes(Tail(es))

\* the normalized target of the entry is not below the target directory
Escapes(name) ==
  LET target == Normalize(targetDirectory \o name, <<>>)
  IN ~(Len(target) >= Len(targetDirectory)
       /\ SubSeq(target, 1, Len(targetDirectory)) = targetDirectory)

\* C13: parseBuffer never returns a publication for an archive whose entries
\* total more than 1,000,000,000 uncompressed bytes.
C13_OversizedArchiveRejected ==
  (pc = "ready" /\ parsed) => SumSizes(unzip.entries) <= MAX_SIZE

\* C14: parseBuffer of an archive with more than 10,000 entries fails and
\* returns no publication, and an archive with exactly 10,000 entries is not
\* rejected for the number of its entries.
C14_EntryCountCeiling ==
  /\ EntryCount > MAX_FILES =>
       (pc = "failed" /\ ~parsed /\ chapters = <<>> /\ result.error # "")
  /\ EntryCount = MAX_FILES => result.error # "Reached max. number of files"

\* an archive of 10,001 entries, all of them inside the target directory,
\* was rejected for the number of its entries
C14_Witness ==
  /\ EntryCount = MAX_FILES + 1
  /\ pc = "failed"
  /\ result.op = "parseBuffer"
  /\ result.error = "Reached max. number of files"

\* C15: parseBuffer of an archive with an entry whose normalized path lies
\* outside the target directory returns no publication and adds no chapter.
C15_EscapingEntryRejected ==
  (\E i \in DOMAIN unzip.entries : Escapes(unzip.entries[i].name)) =>
    (pc # "ready" /\ chapters = <<>>)

\* number of chapters d levels below chapter c in the heap O
RECURSIVE CountAtLevel(_, _, _)
RECURSIVE SumAtLevel(_, _, _, _)
CountAtLevel(O, c, d) ==
  IF d = 0 THEN 1 ELSE SumAtLevel(O, O[c].children, 1, d - 1)

SumAtLevel(O, kids, i, d) ==
  IF i > Len(kids) THEN 0
  ELSE CountAtLevel(O, kids[i], d) + SumAtLevel(O, kids, i + 1, d)

\* C16: exporting a publication and parsing the archive in the same format
\* version gives a publication with the same title and creator, the same
\* number of chapters and the same number of root chapters.
C16_RoundTripKeepsCounts ==
  [][(~parsed /\ result'.op = "parseBuffer" /\ result'.error = "") =>
       /\ metadata'.title = metadata.title
       /\ metadata'.creator = metadata.creator
       /\ Len(chapters') = Len(chapters)
       /\ Len(rootChapterIds') = Len(rootChapterIds)]_vars

\* C17: after export and parse every root chapter that had children has a
\* counterpart, the chapter of the same content document, with the same
\* number of chapters at every level below it.
C17_RoundTripKeepsNesting ==
  [][(~parsed /\ result'.op = "parseBuffer" /\ result'.error = "") =>
       \A r \in Range(rootChapterIds) :
         objs[r].children # <<>> =>
           \E q \in Range(chapters') :
             /\ objs'[q].filename = objs[r].filename
             /\ \A d \in 1..MaxChapters :
                  CountAtLevel(objs', q, d) = CountAtLevel(objs, r, d)]_vars

\* the keys of a Map
Keys(m) == {m[i].key : i \in DOMAIN m}

\* the stylesheets of a source that a merge looks at
CustomStylesheets(sourceEPUB) ==
  SelectSeq(sourceEPUB.stylesheets, LAMBDA s : s.id # "default-style")

\* C18: in a sequence of addEpubAsChapter calls that share the two seen
\* maps, a call adds one stylesheet for every content hash of the source
\* that the maps did not hold and one image likewise, the filename recorded
\* for a hash never changes, and the call maps the filename of every source
\* stylesheet and image to the filename recorded for its hash.
C18_OneResourcePerHash ==
  [][result'.op = "addEpubAsChapter" /\ merge'.source # 0 =>
       LET src == Sources[merge'.source]
           sheets == Range(CustomStylesheets(src))
           imgs == Range(src.images)
           newSheets == {hash(s.content) : s \in sheets}
                          \ Keys(merge.addedStylesheets)
           newImages == {hash(merge.buffers[im.data]) : im \in imgs}
                          \ Keys(merge.addedImages)
       IN /\ Len(stylesheets') - Len(stylesheets) = Cardinality(newSheets)
          /\ Len(images') - Len(images) = Cardinality(newImages)
          /\ Range(merge.addedStylesheets) \subseteq Range(merge'.addedStylesheets)
          /\ Range(merge.addedImages) \subseteq Range(merge'.addedImages)
          /\ \A s \in sheets :
               MapGet(merge'.stylesheetMap, PathOf(s))
                 = MapGet(merge'.addedStylesheets, hash(s.content))
          /\ \A im \in imgs :
               MapGet(merge'.imageMap, PathOf(im))
                 = MapGet(merge'.addedImages, hash(merge.buffers[im.data]))]_vars

\* chapter c2 of heap O2 has as many children as chapter c1 of heap O1, and
\* so on pairwise, in order, below them
RECURSIVE SameShape(_, _, _, _)
SameShape(O1, c1, O2, c2) ==
  /\ Len(O1[c1].children) = Len(O2[c2].children)
  /\ \A i \in DOMAIN O1[c1].children :
       SameShape(O1, O1[c1].children[i], O2, O2[c2].children[i])

\* C19: addEpubAsChapter adds one section chapter and, beneath it, a copy
\* of every chapter of the source: the source roots become the children of
\* the section in root order, every copy has as many children as its source
\* chapter, in the same order, and the destination grows by the number of
\* source chapters plus one.
C19_CopiesSourceForest ==
  [][result'.op = "addEpubAsChapter" /\ merge'.source # 0 =>
       LET src == Sources[merge'.source].pub
           roots == getRootChapters(src)
           sectionId == result'.id
           kids == objs'[sectionId].children
       IN /\ rootChapterIds' = Append(rootChapterIds, sectionId)
          /\ Len(chapters') = Len(chapters) + Len(src.chapters) + 1
          /\ merge'.chapterCount = Len(src.chapters)
          /\ Len(kids) = Len(roots)
          /\ \A i \in DOMAIN roots :
               i \in DOMAIN kids => SameShape(src.objs, roots[i], objs', kids[i])]_vars

\* the Buffer objects that images of the sources refer to
SourceImageBuffers ==
  UNION {{im.data : im \in Range(Sources[k].images)} : k \in DOMAIN Sources}

\* C20: after a merge, writing into the byte buffer of an image of the
\* destination changes the bytes of no image of a source.
C20_NoSharedBuffers ==
  [][result'.op = "writeImageData" =>
       \A b \in SourceImageBuffers : merge'.buffers[b] = merge.buffers[b]]_vars

\* C21: toEPUB3 of a parsed publication whose parent relation has no cycle
\* gives a publication with as many chapters, in the same sequence, each
\* with the counterpart of its source parent as parent (none when the source
\* chapter has none), whatever the order in which the parser created the
\* chapters; parsing the archive exported from the converted publication
\* gives as many chapters.
C21_ConversionKeepsChapters ==
  [][/\ (/\ result'.op = "toEPUB3" /\ result'.error = ""
         /\ \A c \in Range(chapters) : ReachesNull(c, Len(chapters))) =>
          /\ Len(chapters') = Len(chapters)
          /\ \A i \in DOMAIN chapters :
               i \in DOMAIN chapters' =>
                 LET p == objs[chapters[i]].parentId
                     q == objs'[chapters'[i]].parentId
                 IN IF p = NULL THEN q = NULL
                    ELSE \E j \in DOMAIN chapters :
                           chapters[j] = p /\ q = chapters'[j]
     /\ result.op = "toEPUB3" /\ result'.op = "parseBuffer" /\ result'.error = ""
          => Len(chapters') = Len(chapters)]_vars

\* C22: an archive exported in version 2 has the entry EPUB/toc.ncx and no
\* entry EPUB/nav.xhtml, an archive exported in version 3 has the entry
\* EPUB/nav.xhtml and no entry EPUB/toc.ncx, and the only rootfile of the
\* container document is EPUB/package.opf.
C22_NavigationEntryPerVersion ==
  exported.archive.produced =>
    LET paths == EntryPaths(exported.archive)
    IN /\ generateContainer = <<"EPUB/package.opf">>
       /\ "EPUB/package.opf" \in paths
       /\ IF "ncx" \in DOMAIN exported.archive
          THEN "EPUB/toc.ncx" \in paths /\ "EPUB/nav.xhtml" \notin paths
          ELSE "EPUB/nav.xhtml" \in paths /\ "EPUB/toc.ncx" \notin paths

\* position of a chapter id among the keys of the Map
PositionOf(id) == CHOOSE i \in DOMAIN chapters : chapters[i] = id

\* C23: the spine of an exported package document lists every chapter once,
\* in ascending order value, and chapters with equal order values in the
\* order in which they were inserted into the publication.
C23_SpineSortedByOrder ==
  (pc = "ready" /\ exported.archive.produced) =>
    LET sp == exported.archive.opf.spine
    IN /\ Len(sp) = Len(chapters)
       /\ Range(sp) = Range(chapters)
       /\ \A i \in DOMAIN sp : \A j \in DOMAIN sp :
            i < j =>
              \/ objs[sp[i]].order < objs[sp[j]].order
              \/ /\ objs[sp[i]].order = objs[sp[j]].order
                 /\ PositionOf(sp[i]) < PositionOf(sp[j])

\* an archive of a publication with two chapters of equal order and a
\* chapter inserted after one of greater order
C23_Witness ==
  /\ pc = "ready" /\ exported.archive.produced
  /\ \E i \in DOMAIN chapters : \E j \in DOMAIN chapters :
       i < j /\ objs[chapters[i]].order = objs[chapters[j]].order
  /\ \E i \in DOMAIN chapters : \E j \in DOMAIN chapters :
       i < j /\ objs[chapters[i]].order > objs[chapters[j]].order

\* the chapters of the Map stored under a filename
ChaptersOfFile(O, ids, href) == {i \in DOMAIN ids : O[ids[i]].filename = href}

\* C24: when parseBuffer returns after the fallback to the spine, the
\* chapters are exactly those of the spine-only extraction: one root chapter
\* for every spine document, in spine order, and nothing else.
C24_FallbackIsSpineOnly ==
  [][(/\ pc = "nav" /\ pc' = "ready"
      /\ \E i \in DOMAIN result'.warnings :
           result'.warnings[i].text = "Failed to parse NCX")
       => /\ Len(chapters') = Len(spine)
          /\ rootChapterIds' = chapters'
          /\ \A i \in DOMAIN spine :
               i \in DOMAIN chapters' =>
                 /\ objs'[chapters'[i]].filename = spine[i]
                 /\ objs'[chapters'[i]].parentId = NULL
                 /\ objs'[chapters'[i]].children = <<>>]_vars

\* C25: a navigation entry with a fragment that is the first reference to
\* its file creates two chapters, the backing chapter and the fragment
\* chapter; the backing chapter has no parent and is a root.
C25_BackingChapterIsRoot ==
  [][(pc = "nav" /\ pc' = "nav" /\ Len(chapters') = Len(chapters) + 2)
       => LET backing == chapters'[Len(chapters) + 1]
          IN /\ objs'[backing].fragment = ""
             /\ objs'[backing].parentId = NULL
             /\ backing \in Range(rootChapterIds')]_vars

\* the hrefs of the anchors of a navigation document
NavAnchors(nav) == {nav[i].href : i \in {j \in DOMAIN nav : nav[j].tag = "a"}}

\* C26: when parseBuffer has returned, every spine document that no entry
\* of the navigation references is one chapter, a root, with a warning that
\* quotes its href; a document that the navigation references has no such
\* warning and no more than one chapter.
C26_OrphansBecomeRoots ==
  [][(/\ result'.op = "parseBuffer" /\ result'.error = ""
      /\ exported'.archive.produced /\ pc' = "ready")
       => LET sp == SpineHrefs(exported'.archive.opf)
              referenced == NavAnchors(exported'.archive.nav)
              warned == {result'.warnings[i].href : i \in DOMAIN result'.warnings}
          IN \A k \in DOMAIN sp :
               LET of == ChaptersOfFile(objs', chapters', sp[k])
               IN IF sp[k] \in referenced
                  THEN sp[k] \notin warned /\ Cardinality(of) <= 1
                  ELSE /\ Cardinality(of) = 1
                       /\ \A i \in of : /\ objs'[chapters'[i]].parentId = NULL
                                        /\ chapters'[i] \in Range(rootChapterIds')
                       /\ sp[k] \in warned]_vars

\* the chapters of a source in the order copyAllChapters copies them
RECURSIVE CopyOrder(_, _, _)
CopyOrder(O, kids, i) ==
  IF i > Len(kids) THEN <<>>
  ELSE <<kids[i]>> \o CopyOrder(O, O[kids[i]].children, 1)
         \o CopyOrder(O, kids, i + 1)

\* the chapters the last merge added below its section, in copy order
CopiedChapters ==
  SubSeq(chapters, Len(chapters) - merge.chapterCount + 1, Len(chapters))

\* the path of the archive a src reference of a chapter document names:
\* chapter documents are in text/, so ../X is X
RewrittenTargets(map, dir) ==
  {[block |-> SrcAttr("\"", "../" \o dir \o Join(map[i].value)),
    path |-> dir \o Join(map[i].value)] : i \in DOMAIN map}

StoredPaths(rs) == {rs[i].filename : i \in DOMAIN rs}

\* C27: after addEpubAsChapter every reference the merge wrote into a copied
\* chapter names a path under which the destination stores a stylesheet
\* (for the stylesheet map) or an image (for the image map).
C27_RewrittenReferencesResolve ==
  merge.source # 0 =>
    \A k \in DOMAIN CopiedChapters :
      \A j \in DOMAIN objs[CopiedChapters[k]].content :
        LET block == objs[CopiedChapters[k]].content[j]
        IN /\ \A t \in RewrittenTargets(merge.stylesheetMap, "styles/") :
                t.block = block => t.path \in StoredPaths(stylesheets)
           /\ \A t \in RewrittenTargets(merge.imageMap, "images/") :
                t.block = block => t.path \in StoredPaths(images)

\* the replacement of the first entry whose pattern matches the block, the
\* block itself when none does
RewrittenOnce(block, allReplacements) ==
  LET hits == {i \in DOMAIN allReplacements :
                 block \in allReplacements[i].pattern}
  IN IF hits = {} THEN block
     ELSE allReplacements[CHOOSE i \in hits : \A h \in hits : i <= h].replacement

\* C28: every block of a copied chapter is the block of the source chapter
\* rewritten at most once: a reference to an old file ends as the
\* replacement of that file's map entry, and no later entry rewrites it.
C28_RewrittenAtMostOnce ==
  merge.source # 0 =>
    LET S == Sources[merge.source]
        order == CopyOrder(S.pub.objs, getRootChapters(S.pub), 1)
        reps == getAllReplacements(merge.stylesheetMap, merge.imageMap)
    IN /\ Len(order) = merge.chapterCount
       /\ \A k \in DOMAIN order :
            LET from == S.pub.objs[order[k]].content
                to == objs[CopiedChapters[k]].content
            IN /\ DOMAIN to = DOMAIN from
               /\ \A j \in DOMAIN from : to[j] = RewrittenOnce(from[j], reps)

\* the chapters of the Map that back a fragment chapter of the Map
BackingChapters(O, ids) ==
  {c \in Range(ids) :
     /\ O[c].fragment = ""
     /\ \E d \in Range(ids) : /\ O[d].fragment # ""
                              /\ O[d].sourceChapterId = c
                              /\ O[d].filename = O[c].filename}

\* C29: an export that produces an archive writes, for every chapter that
\* backs a fragment chapter, the entry of its file with the backing
\* chapter's markup.
C29_BackingFileKeepsMarkup ==
  [][(pc = "ready" /\ exported'.archive.produced /\ result'.op = "export")
       => \A c \in BackingChapters(objs, chapters) :
            /\ objs[c].filename \in DOMAIN exported'.archive.files
            /\ exported'.archive.files[objs[c].filename] = objs[c].content]_vars

\* C30: export of a publication returned by parseBuffer ends without the
\* traversal of the children arrays meeting a chapter that is already on
\* its call stack, the case in which the recursion never returns and the
\* call ends only when the engine's stack is exhausted.
C30_TraversalsTerminate ==
  [][(pc = "ready" /\ result'.op = "export")
       => /\ ~generateNCXNavMap(Pub).overflow
          /\ result'.error # "Maximum call stack size exceeded"]_vars

=============================================================================
